---- MODULE Spec2Model ----
(***************************************************************************)
(* Model of src/portfolio_manager.py: Eiten.create_returns, Eiten.load_data *)
(* and Eiten.run_strategies.                                               *)
(*                                                                         *)
(* Numbers are exact rationals [num, den] in lowest terms with den > 0     *)
(* (floating-point rounding is not modelled); NaN is the pair 0/0.         *)
(* math.log(x) is the symbolic value [log_of |-> x].  Python lists are     *)
(* 0-based, TLA+ sequences 1-based: Python close_prices[i] is              *)
(* close_prices[i + 1] here.                                               *)
(***************************************************************************)
EXTENDS Integers, Sequences, FiniteSets, TLC

VARIABLES
    IS_TEST,                    \* self.IS_TEST
    APPLY_NOISE_FILTERING,      \* self.APPLY_NOISE_FILTERING
    dataEngine,                 \* what the data collaborator will supply
    data_dictionary,            \* self.data_dictionary
    pc,                         \* index of the next statement of run_strategies
    raised,                     \* exception that ended run_strategies, or "none"
    symbol_names,
    historical_price_info,
    future_prices,
    predicted_return_vectors,
    returns_matrix,
    returns_matrix_percentages,
    historical_price_market,
    future_prices_market,
    covariance_matrix,
    filter_input,               \* argument of random_matrix_theory_based_cov
    strategy_inputs,            \* arguments each strategy call received
    weights,                    \* the four *_portfolio_weights_dictionary locals
    calls                       \* calls made to reporting/evaluation code

config == <<IS_TEST, APPLY_NOISE_FILTERING, dataEngine>>
loaded == <<data_dictionary, symbol_names, historical_price_info, future_prices,
            predicted_return_vectors, returns_matrix, returns_matrix_percentages>>
market == <<historical_price_market, future_prices_market>>
risk == <<covariance_matrix, filter_input>>
vars == <<config, loaded, market, risk, strategy_inputs, weights, calls, pc, raised>>

----------------------------------------------------------------------------
\* Bounds

\* longest closing-price history in the create_returns specification
MaxLen == 3
\* closing prices range over -MaxPrice..MaxPrice in the create_returns specification
MaxPrice == 2
\* length of every history in the run_strategies specification
RunBars == 2

\* ticker universe, in sorted order
Tickers == <<"A", "B">>
\* closing prices of the run_strategies specification
RunPrices == {0, 1}
\* future price series a ticker can come with (empty: no series for the phase)
FutureChoices == {<<>>, <<1, 1>>}
\* weight values a strategy can emit
WeightValues == {1, 2}

\* Python None as the value of a data-valued local
None == <<>>
\* no such argument in a recorded call
NoArg == "None"

----------------------------------------------------------------------------
\* Exact arithmetic

Abs(x) == IF x < 0 THEN -x ELSE x

RECURSIVE GCD(_, _)
GCD(a, b) == IF b = 0 THEN a ELSE GCD(b, a % b)

\* n / d for d # 0, in lowest terms
Frac(n, d) ==
    LET g == GCD(Abs(n), Abs(d))
        s == IF d < 0 THEN -1 ELSE 1
    IN [num |-> (s * n) \div g, den |-> (s * d) \div g]

FracAdd(x, y) == Frac(x.num * y.den + y.num * x.den, x.den * y.den)

FracDivInt(x, k) == Frac(x.num, x.den * k)

RECURSIVE FracSum(_)
FracSum(xs) == IF Len(xs) = 0 THEN Frac(0, 1) ELSE FracAdd(Head(xs), FracSum(Tail(xs)))

NaN == [num |-> 0, den |-> 0]

\* np.mean: NaN (with a suppressed warning) on an empty list
np_mean(xs) == IF Len(xs) = 0 THEN NaN ELSE FracDivInt(FracSum(xs), Len(xs))

----------------------------------------------------------------------------
\* Eiten.calculate_percentage_change and Eiten.create_returns

\* ((new - old) * 100) / old, old # 0
calculate_percentage_change(old, new) == Frac((new - old) * 100, old)

\* the exception math.log(close_prices[i] / close_prices[i - 1]) raises, or "none"
LogError(close_prices, i) ==
    IF close_prices[i] = 0 THEN "ZeroDivisionError"
    ELSE IF close_prices[i + 1] * close_prices[i] <= 0 THEN "ValueError"
    ELSE "none"

\* first exception of the log_returns comprehension of one asset, or "none"
AssetError(close_prices) ==
    LET bad == {i \in 1..(Len(close_prices) - 1) : LogError(close_prices, i) # "none"}
    IN IF bad = {} THEN "none"
       ELSE LogError(close_prices, CHOOSE i \in bad : \A j \in bad : i <= j)

\* variant: the comprehension starts one observation late (range(2, ...))
log_returns_late(close_prices) ==
    [i \in 1..(Len(close_prices) - 2) |->
        [log_of |-> Frac(close_prices[i + 2], close_prices[i + 1])]]

log_returns(close_prices) ==
    [i \in 1..(Len(close_prices) - 1) |->
        [log_of |-> Frac(close_prices[i + 1], close_prices[i])]]

percentage_returns(close_prices) ==
    [i \in 1..(Len(close_prices) - 1) |->
        calculate_percentage_change(close_prices[i], close_prices[i + 1])]

\* variant: the close prices are always read from the first asset of the list
future_expected_returns_first(price_info, k) ==
    LET close_prices == price_info[1]
        total_data == Len(close_prices)
    IN np_mean([i \in 1..(Len(close_prices) - 1) |->
                  FracDivInt(calculate_percentage_change(close_prices[i], close_prices[i + 1]),
                             total_data - i)])

\* future_expected_returns of asset k of the list: Python index i is i here,
\* between close_prices[i] and close_prices[i + 1]
future_expected_returns(price_info, k) ==
    LET close_prices == price_info[k]
        total_data == Len(close_prices)
    IN np_mean([i \in 1..(Len(close_prices) - 1) |->
                  FracDivInt(calculate_percentage_change(close_prices[i], close_prices[i + 1]),
                             total_data - i)])

\* create_returns: the exception of the first failing asset, or the three arrays
create_returns(price_info) ==
    LET failing == {k \in 1..Len(price_info) : AssetError(price_info[k]) # "none"}
    IN IF failing # {}
       THEN [raised |-> AssetError(price_info[CHOOSE k \in failing : \A j \in failing : k <= j]),
             predicted_return_vectors |-> None,
             returns_matrix |-> None,
             returns_matrix_percentages |-> None]
       ELSE [raised |-> "none",
             predicted_return_vectors |->
                 [k \in 1..Len(price_info) |-> future_expected_returns(price_info, k)],
             returns_matrix |->
                 [k \in 1..Len(price_info) |-> log_returns(price_info[k])],
             returns_matrix_percentages |->
                 [k \in 1..Len(price_info) |-> percentage_returns(price_info[k])]]

----------------------------------------------------------------------------
\* Eiten.load_data

Rank(s) == CHOOSE r \in 1..Len(Tickers) : Tickers[r] = s

\* list(sorted(keys))
Sorted(keys) ==
    CHOOSE q \in [1..Cardinality(keys) -> keys] :
        \A a, b \in 1..Cardinality(keys) : a < b => Rank(q[a]) < Rank(q[b])

LoadData ==
    /\ raised = "none"
    /\ pc = 1
    /\ LET dd == dataEngine.tickers
           names == Sorted(DOMAIN dd)
           hist == [k \in 1..Len(names) |-> dd[names[k]].historical_prices]
           fut == [k \in 1..Len(names) |-> dd[names[k]].future_prices]
           r == create_returns(hist)
       IN /\ data_dictionary' = dd
          /\ IF r.raised # "none"
             THEN /\ raised' = r.raised
                  /\ UNCHANGED <<pc, symbol_names, historical_price_info, future_prices,
                                 predicted_return_vectors, returns_matrix,
                                 returns_matrix_percentages>>
             ELSE /\ pc' = pc + 1
                  /\ symbol_names' = names
                  /\ historical_price_info' = hist
                  /\ future_prices' = fut
                  /\ predicted_return_vectors' = r.predicted_return_vectors
                  /\ returns_matrix' = r.returns_matrix
                  /\ returns_matrix_percentages' = r.returns_matrix_percentages
                  /\ UNCHANGED raised
    /\ UNCHANGED <<config, market, risk, strategy_inputs, weights, calls>>

----------------------------------------------------------------------------
\* Initial states

\* ticker sets: the first n tickers of the universe
TickerSets == {{Tickers[i] : i \in 1..n} : n \in 1..Len(Tickers)}

\* histories of a common length over the given prices, one per ticker
Histories(keys, lens, prices) ==
    UNION {[keys -> [1..l -> prices]] : l \in lens}

StrategyLocals == {"eigen_portfolio_weights_dictionary", "mvp_portfolio_weights_dictionary",
                   "msr_portfolio_weights_dictionary", "ga_portfolio_weights_dictionary"}

InitLocals ==
    /\ data_dictionary = <<>>
    /\ pc = 1
    /\ raised = "none"
    /\ symbol_names = None
    /\ historical_price_info = None
    /\ future_prices = None
    /\ predicted_return_vectors = None
    /\ returns_matrix = None
    /\ returns_matrix_percentages = None
    /\ historical_price_market = None
    /\ future_prices_market = None
    /\ covariance_matrix = None
    /\ filter_input = None
    /\ strategy_inputs = <<>>
    /\ weights = [v \in StrategyLocals |-> None]
    /\ calls = <<>>

\* create_returns on every bounded list of histories
InitReturns ==
    /\ IS_TEST = FALSE
    /\ APPLY_NOISE_FILTERING = FALSE
    /\ \E keys \in TickerSets :
         \E h \in Histories(keys, 0..MaxLen, (-MaxPrice)..MaxPrice) :
            dataEngine = [tickers |-> [s \in keys |->
                                         [historical_prices |-> h[s], future_prices |-> <<>>]],
                          market |-> [historical |-> <<1, 1>>, future |-> <<>>]]
    /\ InitLocals

NextReturns == LoadData

SpecReturns == InitReturns /\ [][NextReturns]_vars

----------------------------------------------------------------------------
\* Eiten.run_strategies: the statements after load_data

\* np.cov(m): symbolic covariance of the rows of m; numpy squeezes the result,
\* so a one-row matrix gives a 0-dimensional array
np_cov(m) ==
    [kind |-> "cov", of |-> m,
     shape |-> IF Len(m) = 1 THEN <<>> ELSE <<Len(m), Len(m)>>]

\* strategyManager.random_matrix_theory_based_cov(x): symbolic result
random_matrix_theory_based_cov(x) == [kind |-> "noise_filtered", of |-> x]

\* the weight-computation calls, in source order
WeightCalls ==
    << [fn |-> "calculate_eigen_portfolio", target |-> "eigen_portfolio_weights_dictionary",
        takes_covariance |-> TRUE, takes_predicted |-> FALSE, takes_percentages |-> FALSE],
       [fn |-> "calculate_minimum_variance_portfolio", target |-> "mvp_portfolio_weights_dictionary",
        takes_covariance |-> TRUE, takes_predicted |-> FALSE, takes_percentages |-> FALSE],
       [fn |-> "calculate_maximum_sharpe_portfolio", target |-> "msr_portfolio_weights_dictionary",
        takes_covariance |-> TRUE, takes_predicted |-> TRUE, takes_percentages |-> FALSE],
       [fn |-> "calculate_genetic_algo_portfolio", target |-> "ga_portfolio_weights_dictionary",
        takes_covariance |-> FALSE, takes_predicted |-> FALSE, takes_percentages |-> TRUE] >>

\* the print_and_plot_portfolio_weights calls, in source order
PrintCalls ==
    << [weights_arg |-> "eigen_portfolio_weights_dictionary", strategy_name |-> "Eigen Portfolio"],
       [weights_arg |-> "mvp_portfolio_weights_dictionary",
        strategy_name |-> "Minimum Variance Portfolio (MVP)"],
       [weights_arg |-> "msr_portfolio_weights_dictionary",
        strategy_name |-> "Maximum Sharpe Portfolio (MSR)"],
       [weights_arg |-> "ga_portfolio_weights_dictionary", strategy_name |-> "Genetic Algo (GA)"] >>

\* variant: the MVP back test is written before the eigen back test
BackTestCalls_swapped ==
    << [weights_arg |-> "mvp_portfolio_weights_dictionary",
        strategy_name |-> "Minimum Variance Portfolio (MVP)"],
       [weights_arg |-> "eigen_portfolio_weights_dictionary", strategy_name |-> "Eigen Portfolio"],
       [weights_arg |-> "msr_portfolio_weights_dictionary",
        strategy_name |-> "Maximum Sharpe Portfolio (MSR)"],
       [weights_arg |-> "ga_portfolio_weights_dictionary", strategy_name |-> "Genetic Algo (GA)"] >>

\* the backTester.back_test calls, in source order
BackTestCalls ==
    << [weights_arg |-> "eigen_portfolio_weights_dictionary", strategy_name |-> "Eigen Portfolio"],
       [weights_arg |-> "mvp_portfolio_weights_dictionary",
        strategy_name |-> "Minimum Variance Portfolio (MVP)"],
       [weights_arg |-> "msr_portfolio_weights_dictionary",
        strategy_name |-> "Maximum Sharpe Portfolio (MSR)"],
       [weights_arg |-> "ga_portfolio_weights_dictionary", strategy_name |-> "Genetic Algo (GA)"] >>

\* the backTester.future_test calls, in source order
FutureTestCalls ==
    << [weights_arg |-> "eigen_portfolio_weights_dictionary", strategy_name |-> "Eigen Portfolio"],
       [weights_arg |-> "mvp_portfolio_weights_dictionary",
        strategy_name |-> "Minimum Variance Portfolio (MVP)"],
       [weights_arg |-> "msr_portfolio_weights_dictionary",
        strategy_name |-> "Maximum Sharpe Portfolio (MSR)"],
       [weights_arg |-> "ga_portfolio_weights_dictionary", strategy_name |-> "Genetic Algo (GA)"] >>

\* the simulator.simulate_portfolio calls, in source order: the MVP and MSR
\* calls are given eigen_portfolio_weights_dictionary
SimulateCalls ==
    << [weights_arg |-> "eigen_portfolio_weights_dictionary", strategy_name |-> "Eigen Portfolio"],
       [weights_arg |-> "eigen_portfolio_weights_dictionary",
        strategy_name |-> "Minimum Variance Portfolio (MVP)"],
       [weights_arg |-> "eigen_portfolio_weights_dictionary",
        strategy_name |-> "Maximum Sharpe Portfolio (MSR)"],
       [weights_arg |-> "ga_portfolio_weights_dictionary", strategy_name |-> "Genetic Algo (GA)"] >>

Stmts(op, table) == [i \in 1..Len(table) |-> [op |-> op, call |-> table[i]]]

Draw(filename) == <<[op |-> "draw_plot", call |-> filename]>>

\* the body of run_strategies, one entry per statement
Program ==
    << [op |-> "load_data", call |-> NoArg],
       [op |-> "get_market_index_price", call |-> NoArg],
       [op |-> "np_cov", call |-> NoArg],
       [op |-> "if_APPLY_NOISE_FILTERING", call |-> NoArg] >>
    \o Stmts("compute_weights", WeightCalls)
    \o Stmts("print_and_plot_portfolio_weights", PrintCalls) \o Draw("output/weights.png")
    \o Stmts("back_test", BackTestCalls) \o Draw("output/backtest.png")
    \o <<[op |-> "if_IS_TEST", call |-> NoArg]>>
    \o Stmts("future_test", FutureTestCalls) \o Draw("output/future_tests.png")
    \o Stmts("simulate_portfolio", SimulateCalls) \o Draw("output/monte_carlo.png")

Done == pc = Len(Program) + 1

At(op) == raised = "none" /\ pc \in 1..Len(Program) /\ Program[pc].op = op

GetMarketIndexPrice ==
    /\ At("get_market_index_price")
    /\ historical_price_market' = dataEngine.market.historical
    /\ future_prices_market' = dataEngine.market.future
    /\ pc' = pc + 1
    /\ UNCHANGED <<config, loaded, risk, strategy_inputs, weights, calls, raised>>

ComputeCovariance ==
    /\ At("np_cov")
    /\ covariance_matrix' = np_cov(returns_matrix)
    /\ pc' = pc + 1
    /\ UNCHANGED <<config, loaded, market, filter_input, strategy_inputs, weights, calls, raised>>

\* variant: the filter is handed the covariance estimate
FilterArgument_covariance == [name |-> "covariance_matrix", value |-> covariance_matrix]

\* the argument of random_matrix_theory_based_cov: the local passed and its value
FilterArgument == [name |-> "returns_matrix", value |-> returns_matrix]

NoiseFilter ==
    /\ At("if_APPLY_NOISE_FILTERING")
    /\ IF APPLY_NOISE_FILTERING
       THEN /\ filter_input' = FilterArgument
            /\ covariance_matrix' = random_matrix_theory_based_cov(FilterArgument.value)
       ELSE UNCHANGED <<filter_input, covariance_matrix>>
    /\ pc' = pc + 1
    /\ UNCHANGED <<config, loaded, market, strategy_inputs, weights, calls, raised>>

\* the weight mappings a strategy of the strategy provider can return
WeightMappings ==
    UNION {[keys -> {w}] : keys \in (SUBSET {Tickers[i] : i \in 1..Len(Tickers)}) \ {{}},
                           w \in WeightValues}

ComputeWeights ==
    /\ At("compute_weights")
    /\ LET c == Program[pc].call
       IN /\ strategy_inputs' = Append(strategy_inputs,
                [fn |-> c.fn,
                 symbol_names |-> symbol_names,
                 covariance_matrix |-> IF c.takes_covariance THEN covariance_matrix ELSE None,
                 predicted_return_vectors |->
                     IF c.takes_predicted THEN predicted_return_vectors ELSE None,
                 returns_matrix_percentages |->
                     IF c.takes_percentages THEN returns_matrix_percentages ELSE None])
          /\ \E m \in WeightMappings : weights' = [weights EXCEPT ![c.target] = m]
    /\ pc' = pc + 1
    /\ UNCHANGED <<config, loaded, market, risk, calls, raised>>

PrintWeights ==
    /\ At("print_and_plot_portfolio_weights")
    /\ LET c == Program[pc].call
       IN calls' = Append(calls,
                [fn |-> "print_and_plot_portfolio_weights", strategy_name |-> c.strategy_name,
                 weights |-> weights[c.weights_arg], market_arg |-> NoArg,
                 outcome |-> "returned"])
    /\ pc' = pc + 1
    /\ UNCHANGED <<config, loaded, market, risk, strategy_inputs, weights, raised>>

DrawPlot ==
    /\ At("draw_plot")
    /\ calls' = Append(calls,
                [fn |-> "draw_plot", strategy_name |-> Program[pc].call,
                 weights |-> None, market_arg |-> NoArg, outcome |-> "returned"])
    /\ pc' = pc + 1
    /\ UNCHANGED <<config, loaded, market, risk, strategy_inputs, weights, raised>>

\* an evaluator finds no price series of the phase for an asset it holds a weight for
SeriesMissing(weight_mapping, series) ==
    \E s \in DOMAIN weight_mapping :
        \/ s \notin DOMAIN data_dictionary
        \/ data_dictionary[s][series] = <<>>

\* one evaluator call: it returns, or its exception ends run_strategies
Evaluate(fn, series, market_arg) ==
    /\ At(fn)
    /\ LET c == Program[pc].call
           missing == SeriesMissing(weights[c.weights_arg], series)
       IN /\ calls' = Append(calls,
                [fn |-> fn, strategy_name |-> c.strategy_name,
                 weights |-> weights[c.weights_arg], market_arg |-> market_arg,
                 outcome |-> IF missing THEN "raised" ELSE "returned"])
          /\ IF missing
             THEN raised' = "PhaseDataMissingError" /\ UNCHANGED pc
             ELSE pc' = pc + 1 /\ UNCHANGED raised
    /\ UNCHANGED <<config, loaded, market, risk, strategy_inputs, weights>>

BackTest == Evaluate("back_test", "historical_prices", "historical_price_market")

\* variant: the future tests are not guarded
FutureTestEnabled_always == TRUE

\* the condition of the future-test block
FutureTestEnabled == IS_TEST

IfIsTest ==
    /\ At("if_IS_TEST")
    /\ pc' = IF FutureTestEnabled THEN pc + 1 ELSE pc + Len(FutureTestCalls) + 2
    /\ UNCHANGED <<config, loaded, market, risk, strategy_inputs, weights, calls, raised>>

FutureTest == Evaluate("future_test", "future_prices", "future_prices_market")

Simulate == Evaluate("simulate_portfolio", "historical_prices", "future_prices_market")

Init ==
    /\ IS_TEST \in BOOLEAN
    /\ APPLY_NOISE_FILTERING \in BOOLEAN
    /\ \E keys \in TickerSets :
         \E h \in Histories(keys, {RunBars}, RunPrices), f \in [keys -> FutureChoices] :
            dataEngine = [tickers |-> [s \in keys |->
                                         [historical_prices |-> h[s], future_prices |-> f[s]]],
                          market |-> [historical |-> <<1, 1>>, future |-> <<1, 2>>]]
    /\ InitLocals

Next ==
    \/ LoadData
    \/ GetMarketIndexPrice
    \/ ComputeCovariance
    \/ NoiseFilter
    \/ ComputeWeights
    \/ PrintWeights
    \/ DrawPlot
    \/ BackTest
    \/ IfIsTest
    \/ FutureTest
    \/ Simulate

Spec == Init /\ [][Next]_vars

----------------------------------------------------------------------------
\* Properties of create_returns / load_data (specification SpecReturns)

\* load_data has been executed (it returned or raised)
Loaded == DOMAIN data_dictionary # {}

AssetCount == Cardinality(DOMAIN dataEngine.tickers)

SuppliedHistories == {dataEngine.tickers[s].historical_prices : s \in DOMAIN dataEngine.tickers}

HasNonPositivePrice == \E h \in SuppliedHistories : \E i \in DOMAIN h : h[i] <= 0

HasShortHistory == \E h \in SuppliedHistories : Len(h) < 2

AllPositiveLongEnough ==
    \A h \in SuppliedHistories : Len(h) >= 2 /\ \A i \in DOMAIN h : h[i] > 0

\* C4: whenever some closing price is zero or negative, create_returns fails
\* with DataIntegrityError and returns no matrix or vector.
C4_NonPositivePriceIsDataIntegrityError ==
    (Loaded /\ HasNonPositivePrice) =>
        /\ raised = "DataIntegrityError"
        /\ returns_matrix = None
        /\ returns_matrix_percentages = None
        /\ predicted_return_vectors = None

\* C5: whenever some closing-price sequence has length 0 or 1, create_returns
\* fails with InsufficientHistoryError instead of returning empty rows or an
\* undefined expected return.
C5_ShortHistoryIsInsufficientHistoryError ==
    (Loaded /\ HasShortHistory) => raised = "InsufficientHistoryError"

\* C6: for N series of L >= 2 strictly positive prices, both return matrices
\* have N rows of L-1 columns, row k belongs to the k-th input series (the
\* k-th symbol in sorted order) and column t is the log of price[t+1]/price[t],
\* respectively 100*(price[t+1]-price[t])/price[t].
C6_ReturnMatricesShape ==
    (Loaded /\ AllPositiveLongEnough) =>
        /\ raised = "none"
        /\ Len(symbol_names) = AssetCount
        /\ Len(returns_matrix) = AssetCount
        /\ Len(returns_matrix_percentages) = AssetCount
        /\ \A k \in 1..AssetCount :
             LET p == dataEngine.tickers[symbol_names[k]].historical_prices
             IN /\ historical_price_info[k] = p
                /\ \A j \in 1..AssetCount : k < j => Rank(symbol_names[k]) < Rank(symbol_names[j])
                /\ Len(returns_matrix[k]) = Len(p) - 1
                /\ Len(returns_matrix_percentages[k]) = Len(p) - 1
                /\ \A t \in 1..(Len(p) - 1) :
                     /\ returns_matrix[k][t].log_of.den > 0
                     /\ returns_matrix[k][t].log_of.num * p[t]
                            = p[t + 1] * returns_matrix[k][t].log_of.den
                     /\ returns_matrix_percentages[k][t].den > 0
                     /\ returns_matrix_percentages[k][t].num * p[t]
                            = (p[t + 1] - p[t]) * 100 * returns_matrix_percentages[k][t].den

C6_Witness ==
    /\ Loaded /\ AllPositiveLongEnough
    /\ AssetCount = 2
    /\ Len(returns_matrix[1]) = 2
    /\ returns_matrix[1] # returns_matrix[2]
    /\ returns_matrix[1][1] # returns_matrix[1][2]

IndexPermutations(n) == {p \in [1..n -> 1..n] : \A a, b \in 1..n : p[a] = p[b] => a = b}

\* C7: the expected-return vector has one entry per asset, and permuting the
\* input list permutes the vector the same way.
C7_ExpectedReturnPermutes ==
    (Loaded /\ raised = "none") =>
        /\ Len(predicted_return_vectors) = AssetCount
        /\ \A p \in IndexPermutations(AssetCount) :
             create_returns([k \in 1..AssetCount |-> historical_price_info[p[k]]])
                 .predicted_return_vectors
               = [k \in 1..AssetCount |-> predicted_return_vectors[p[k]]]

C7_Witness ==
    /\ Loaded /\ raised = "none"
    /\ AssetCount = 2
    /\ Len(historical_price_info[1]) = 3
    /\ predicted_return_vectors[1] # predicted_return_vectors[2]
    /\ predicted_return_vectors[1] # NaN

----------------------------------------------------------------------------
\* Properties of run_strategies (specification Spec)

Evaluators == {"back_test", "future_test", "simulate_portfolio"}

StrategyNames ==
    <<"Eigen Portfolio", "Minimum Variance Portfolio (MVP)",
      "Maximum Sharpe Portfolio (MSR)", "Genetic Algo (GA)">>

StrategyIndex(name) == CHOOSE i \in 1..Len(StrategyNames) : StrategyNames[i] = name

\* the local that holds the weights the strategy of that name returned
OwnWeights(name) == weights[WeightCalls[StrategyIndex(name)].target]

CallsOf(fn) == {i \in 1..Len(calls) : calls[i].fn = fn}

\* run_strategies has returned or has been ended by an exception
Stopped == Done \/ raised # "none"

\* C1 as stated: outside test mode future_test is never invoked and no future
\* price series is fetched or handed to any evaluator.
C1_NoFuturePricesOutsideTestMode ==
    ~IS_TEST =>
        /\ CallsOf("future_test") = {}
        /\ future_prices = None
        /\ future_prices_market = None
        /\ \A i \in 1..Len(calls) : calls[i].market_arg # "future_prices_market"

\* C1 amended: outside test mode future_test is never invoked; the future price
\* series are still fetched by load_data and get_market_index_price, and every
\* simulate_portfolio call is handed future_prices_market.
C1_NoFutureTestOutsideTestMode ==
    ~IS_TEST =>
        /\ CallsOf("future_test") = {}
        /\ pc > 1 => future_prices = [k \in 1..Len(symbol_names) |->
                                        dataEngine.tickers[symbol_names[k]].future_prices]
        /\ pc > 2 => future_prices_market = dataEngine.market.future
        /\ \A i \in CallsOf("simulate_portfolio") :
             calls[i].market_arg = "future_prices_market"

C1_Witness ==
    /\ ~IS_TEST /\ Done
    /\ Cardinality(CallsOf("simulate_portfolio")) = 4
    /\ Cardinality(CallsOf("back_test")) = 4

\* C2: only a weight mapping whose key set equals the input symbol set is
\* handed to backtest, future-test or simulate; any other makes the
\* orchestrator raise ContractViolationError for that strategy.
C2_OnlyExactKeySetsReachEvaluators ==
    \A i \in 1..Len(calls) :
        calls[i].fn \in Evaluators =>
            DOMAIN calls[i].weights = {symbol_names[k] : k \in 1..Len(symbol_names)}

\* the (phase, strategy) pairs that are due to run in this run
DuePairs ==
    {<<fn, n>> : fn \in (IF IS_TEST THEN Evaluators ELSE Evaluators \ {"future_test"}),
                 n \in {StrategyNames[i] : i \in 1..Len(StrategyNames)}}

\* C3: a missing price series fails its (strategy, phase) pair only; when the
\* run is over every due pair has been run, each failed or completed.
C3_FailureDoesNotStopLaterEvaluations ==
    (Stopped /\ CallsOf("back_test") # {}) =>
        \A d \in DuePairs :
            \E i \in 1..Len(calls) : calls[i].fn = d[1] /\ calls[i].strategy_name = d[2]

\* C8: every evaluator call labelled with a strategy's name is given the
\* weight mapping that strategy's own compute-weights call returned.
C8_EvaluatorGetsOwnWeights ==
    \A i \in 1..Len(calls) :
        calls[i].fn \in Evaluators => calls[i].weights = OwnWeights(calls[i].strategy_name)

CovarianceInputs == {i \in 1..Len(strategy_inputs) : strategy_inputs[i].covariance_matrix # None}

Stages == <<"print_and_plot_portfolio_weights", "back_test", "future_test", "simulate_portfolio">>

StageIndex(fn) == CHOOSE i \in 1..Len(Stages) : Stages[i] = fn

\* the stage calls of the log, draw_plot calls left out
StageCalls == SelectSeq(calls, LAMBDA c : c.fn # "draw_plot")

\* the stage before stage g in this run
PreviousStage(g) == IF g = 4 /\ ~IS_TEST THEN 2 ELSE g - 1

\* C10: every stage visits the strategies in the order Eigen, MVP, MSR, GA,
\* and a stage starts only after the previous stage has finished its last
\* strategy.
C10_FixedStrategyOrder ==
    /\ \A i \in 1..Len(strategy_inputs) : strategy_inputs[i].fn = WeightCalls[i].fn
    /\ StageCalls # <<>> => Len(strategy_inputs) = Len(StrategyNames)
    /\ \A i \in 1..Len(StageCalls) :
         LET g == StageIndex(StageCalls[i].fn)
             n == StrategyIndex(StageCalls[i].strategy_name)
         IN /\ n > 1 => /\ i > 1
                        /\ StageCalls[i - 1].fn = StageCalls[i].fn
                        /\ StageCalls[i - 1].strategy_name = StrategyNames[n - 1]
                        /\ StageCalls[i - 1].outcome = "returned"
            /\ (n = 1 /\ g > 1) =>
                        /\ i > 1
                        /\ StageCalls[i - 1].fn = Stages[PreviousStage(g)]
                        /\ StageCalls[i - 1].strategy_name = StrategyNames[Len(StrategyNames)]
                        /\ StageCalls[i - 1].outcome = "returned"
            /\ (n = 1 /\ g = 1) => i = 1
            /\ (g = 3) => IS_TEST

C10_Witness ==
    /\ IS_TEST /\ Done
    /\ Len(StageCalls) = 16

====
